---- MODULE Spec2Model ----
(***************************************************************************)
(* GamelistDB (es-app/src/GamelistDB.cpp): the "files" table of the        *)
(* gamelist database, the filesystem it mirrors, and the operations on it: *)
(* setFileData, getFileData, addMissingFiles, updateExists.                *)
(*                                                                         *)
(* Paths are sequences of path components.  A nullable column value is a   *)
(* sequence of length 0 (SQL NULL) or 1 (the value).                       *)
(***************************************************************************)
EXTENDS Integers, Sequences, FiniteSets, TLC

VARIABLES
    fs,       \* the paths that exist on disk
    files,    \* the committed rows of table "files"
    nput,     \* number of setFileData calls so far
    lastOp    \* the last operation, its arguments and what it returned or threw

vars == <<fs, files, nput, lastOp>>

\* ------------------------------------------------------------------ bounds
\* setFileData calls explored in one behaviour; every node of an imported
\* document counts as one, skipped or not
MaxPut == 2

\* nodes in a document given to importXML
MaxNodes == 2

\* --------------------------------------------------------------- SQL values
NULL == <<>>
Val(v) == <<v>>

\* FileType enumerators bound by add_file (declared in FileData.h)
FileType_GAME == 1
FileType_FOLDER == 2

\* ---------------------------------------------------------------- systems
\* SystemData::getName() of the systems; "7" reads as an SQL numeric literal
\* when it is spliced into a statement, "nes" reads as a column name.
SystemNames == {"7", "nes"}

SqlNumericLiteral(name) == name \in {"7"}

getStartPath(system) == <<"roms">>

getExtensions(system) == {".nes"}

\* ------------------------------------------------------------- filesystem
Directories == { <<"roms">>, <<"roms", "d">>, <<"roms", "d", "e">>, <<"roms", "s">> }

RegularFiles == { <<"roms", "d", "e", "c.nes">>, <<"roms", "s", "n.txt">> }

\* every path the model's disk can hold, in the order directory_iterator
\* enumerates entries (an order the platform leaves open, fixed here)
Universe == << <<"roms">>, <<"roms", "d">>, <<"roms", "d", "e">>,
               <<"roms", "d", "e", "c.nes">>, <<"roms", "s">>,
               <<"roms", "s", "n.txt">> >>

Paths == { Universe[i] : i \in 1..Len(Universe) }

Parent(p) == SubSeq(p, 1, Len(p) - 1)

IsPrefix(p, q) == Len(p) <= Len(q) /\ SubSeq(q, 1, Len(p)) = p

\* fs::path::extension() of the last component
extension(p) ==
    LET n == p[Len(p)] IN
    CASE n \in {"c.nes"} -> ".nes"
      [] n \in {"n.txt"} -> ".txt"
      [] OTHER -> ""

\* a filesystem: the root exists, and every entry's parent exists
WellFormedFs(s) ==
    /\ <<"roms">> \in s
    /\ \A p \in s : Len(p) > 1 => Parent(p) \in s

RECURSIVE DropDots(_)
\* the lexical normalisation fs::exists applies: "." components name the
\* directory itself
DropDots(p) ==
    IF p = <<>> THEN <<>>
    ELSE IF Head(p) = "." THEN DropDots(Tail(p))
    ELSE <<Head(p)>> \o DropDots(Tail(p))

exists(p, disk) == DropDots(p) \in disk

is_directory(p) == p \in Directories

\* --------------------------------------------------------- field catalog
GAME_METADATA == "GAME_METADATA"
FOLDER_METADATA == "FOLDER_METADATA"

\* getMDDMap().at(type): the ordered field declarations of a record kind.
\* Both kinds share the table, one column per declaration.
getMDD(type) ==
    << [key |-> "name", type |-> "MD_STRING", defaultValue |-> ""],
       [key |-> "playcount", type |-> "MD_INT", defaultValue |-> "0"] >>

MDKeys == { getMDD(GAME_METADATA)[i].key : i \in 1..Len(getMDD(GAME_METADATA)) }

\* metadata type -> SQLite column type (the switch of createTables)
SqlType(mdtype) ==
    CASE mdtype \in {"MD_IMAGE_PATH", "MD_MULTILINE_STRING", "MD_STRING"} -> "VARCHAR(255)"
      [] mdtype = "MD_INT" -> "INT"
      [] mdtype \in {"MD_RATING", "MD_FLOAT"} -> "FLOAT"
      [] mdtype = "MD_DATE" -> "DATE"
      [] mdtype = "MD_TIME" -> "DATETIME"

\* whether createTables writes a DEFAULT clause for the declaration
HasDefault(decl) ==
    /\ decl.type \notin {"MD_DATE", "MD_TIME"}
    /\ decl.defaultValue # ""

\* SQLite's column affinity of a declared type
Affinity(sqltype) ==
    CASE sqltype = "VARCHAR(255)" -> "TEXT"
      [] sqltype = "INT" -> "INTEGER"
      [] sqltype = "FLOAT" -> "REAL"
      [] OTHER -> "NUMERIC"

\* The text sqlite3_column_text returns for a text value stored in a column
\* of the given affinity: numeric text is stored as a number in a numeric
\* column and comes back in the number's canonical form.
StoredText(affinity, text) ==
    CASE affinity = "TEXT" -> text
      [] affinity \in {"INTEGER", "NUMERIC"} ->
            (CASE text = "7.0" -> "7" [] text = "0.0" -> "0" [] OTHER -> text)
      [] affinity = "REAL" ->
            (CASE text = "7" -> "7.0" [] text = "0" -> "0.0" [] OTHER -> text)

\* createTables: the columns of table "files", in order.  Column i of the
\* sqlite3_column_* calls is createTables[i + 1].
createTables ==
    LET decl == getMDD(GAME_METADATA) IN
    << [name |-> "fileid", affinity |-> "TEXT", default |-> NULL],
       [name |-> "systemid", affinity |-> "TEXT", default |-> NULL],
       [name |-> "filetype", affinity |-> "INTEGER", default |-> NULL],
       [name |-> "fileexists", affinity |-> "NUMERIC", default |-> NULL] >>
    \o [i \in 1..Len(decl) |->
          [name |-> decl[i].key,
           affinity |-> Affinity(SqlType(decl[i].type)),
           default |-> IF HasDefault(decl[i])
                       THEN Val(StoredText(Affinity(SqlType(decl[i].type)),
                                           decl[i].defaultValue))
                       ELSE NULL]]

ColumnCount == Len(createTables)

\* sqlite3_column_*(stmt, i) of a row
column(row, i) == row[i + 1]

\* the kind a reader takes from the filetype column:
\* sqlite3_column_int(stmt, 2) ? FOLDER_METADATA : GAME_METADATA
RowKind(row) == IF column(row, 2) # 0 THEN FOLDER_METADATA ELSE GAME_METADATA

\* PRIMARY KEY (fileid, systemid)
SameKey(r, fileID, systemID) == column(r, 0) = fileID /\ column(r, 1) = systemID

RowsOf(table, fileID, systemID) == { r \in table : SameKey(r, fileID, systemID) }

\* ------------------------------------------------------------ statements
\* INSERT OR REPLACE: a row with the same primary key is deleted first
InsertOrReplace(table, row) ==
    { r \in table : ~SameKey(r, column(row, 0), column(row, 1)) } \cup {row}

\* INSERT OR IGNORE: a row whose primary key is taken is not inserted
InsertOrIgnore(table, row) ==
    IF RowsOf(table, column(row, 0), column(row, 1)) # {} THEN table
    ELSE table \cup {row}

\* sqlite3_step of a SELECT whose result set is rows
step(rows) == IF rows # {} THEN "SQLITE_ROW" ELSE "SQLITE_DONE"

\* ---------------------------------------------------------- MetaDataMap
\* A MetaDataMap: its list type and the string of every key set in it.
FileIDs == { <<".", "d", "e", "c.nes">>, <<"roms", "s", "n.txt">> }

MetaDataMaps ==
    { [type |-> t, values |-> [k \in MDKeys |-> IF k = "name" THEN v[1] ELSE v[2]]] :
        t \in {GAME_METADATA, FOLDER_METADATA},
        v \in { <<"A", "0">>, <<"B", "7.0">> } }

NoMetaData == [type |-> "", values |-> <<>>]

\* --------------------------------------------------------- setFileData
\* the row bound by setFileData: ?1 fileid, ?2 systemid, ?3 filetype,
\* ?4 fileexists, ?5.. the values of the map's declarations, in order
BoundRow(fileID, systemID, metadata) ==
    LET mdd == getMDD(metadata.type) IN
    << fileID, systemID,
       IF metadata.type = FOLDER_METADATA THEN 1 ELSE 0,
       Val(1) >>
    \o [i \in 1..Len(mdd) |->
          Val(StoredText(createTables[4 + i].affinity, metadata.values[mdd[i].key]))]

\* a faulty variant: REPLACE keeps the old row next to the new one
setFileData_keepsOld(table, fileID, systemID, metadata) ==
    [status |-> "ok", table |-> table \cup {BoundRow(fileID, systemID, metadata)}]

\* setFileData: the table afterwards, and whether it threw.  The statement
\* is prepared with as many values as the map has declarations and is
\* rejected unless that is the table's column count.
setFileData(table, fileID, systemID, metadata) ==
    IF 4 + Len(getMDD(metadata.type)) # ColumnCount
    THEN [status |-> "DBException", table |-> table]
    ELSE [status |-> "ok",
          table |-> InsertOrReplace(table, BoundRow(fileID, systemID, metadata))]

\* --------------------------------------------------------- getFileData
\* what getFileData builds from a statement that points at no row: the
\* type from column 1 (read as 0), and one field per column from 2 on, each
\* set from the null pointer sqlite3_column_text returns
NoRowMap ==
    [type |-> GAME_METADATA,
     values |-> [c \in { createTables[i + 1].name : i \in 2..(ColumnCount - 1) } |-> ""]]

\* getFileData.  step_expected(SQLITE_DONE) throws when the SELECT finds the
\* row.  When it finds none, the map is built from null pointers, which is
\* undefined: ub is the outcome the build produces, an exception out of
\* std::string's constructor or a map of empty strings.
getFileData(table, fileID, systemID, ub) ==
    IF step(RowsOf(table, fileID, systemID)) # "SQLITE_DONE"
    THEN [status |-> "DBException", map |-> NoMetaData]
    ELSE IF ub = "throws"
    THEN [status |-> "logic_error", map |-> NoMetaData]
    ELSE [status |-> "ok", map |-> NoRowMap]

\* ------------------------------------------------------ file identifiers
\* pathToFileID: makeRelativePath(path, systemStartPath, false).  A path
\* under the start path becomes "." followed by the rest; any other path is
\* kept as it is.
pathToFileID(path, relativeTo) ==
    IF IsPrefix(relativeTo, path)
    THEN <<".">> \o SubSeq(path, Len(relativeTo) + 1, Len(path))
    ELSE path

\* -------------------------------------------------------- SQLTransaction
\* ~SQLTransaction: commit() runs when mDB is still set, that is whenever
\* commit() has not run before, also while an exception unwinds the scope.
\* The table readers see afterwards: the transaction's writes if it
\* commits, else the table as it was at BEGIN.
SQLTransaction_dtor(mDB, atBegin, written) ==
    IF mDB THEN written ELSE atBegin

\* An SQLTransaction object: mDB (whether the pointer is still set), the
\* COMMIT statements it has run, and whether commit() threw "already
\* committed".  The constructor runs BEGIN TRANSACTION.
SQLTransaction == [mDB |-> TRUE, commits |-> 0, threw |-> FALSE]

\* SQLTransaction::commit: throws when mDB is cleared, else runs COMMIT and
\* clears mDB
SQLTransaction_commit(t) ==
    IF ~t.mDB THEN [t EXCEPT !.threw = TRUE]
    ELSE [t EXCEPT !.mDB = FALSE, !.commits = t.commits + 1]

\* SQLTransaction::~SQLTransaction: if(mDB) commit();
SQLTransaction_destroy(t) ==
    IF t.mDB THEN SQLTransaction_commit(t) ELSE t

\* a scope that declares a transaction, runs its body and, when the body
\* does not throw, calls commit() as its last statement; the object as the
\* destructor leaves it
TransactionScope(bodyThrows) ==
    SQLTransaction_destroy(IF bodyThrows THEN SQLTransaction
                           ELSE SQLTransaction_commit(SQLTransaction))

\* -------------------------------------------------------- the scanner
\* a faulty variant: the INSERT replaces a row that is there
add_file_replaces(fileid, filetype, table, system) ==
    InsertOrReplace(table,
        << fileid, system, FileType_GAME >>
        \o [i \in 1..(ColumnCount - 3) |-> createTables[3 + i].default])

\* add_file: the prepared INSERT OR IGNORE of addMissingFiles, which names
\* the columns fileid, systemid, filetype; the others take their defaults.
\* ?2 is bound to FileType::GAME whatever filetype is passed.
add_file(fileid, filetype, table, system) ==
    InsertOrIgnore(table,
        << fileid, system, FileType_GAME >>
        \o [i \in 1..(ColumnCount - 3) |-> createTables[3 + i].default])

\* the entries of a directory, as directory_iterator yields them
Entries(dir, disk) ==
    SelectSeq(Universe,
              LAMBDA p : p \in disk /\ Len(p) = Len(dir) + 1 /\ IsPrefix(dir, p))

\* a faulty variant: every file passes the extension list
Qualifies_any(path, extensions) == TRUE

\* std::find(extensions.begin(), extensions.end(), path.extension()) hits
Qualifies(path, extensions) == extension(path) \in extensions

\* a faulty variant: the result of the recursion into a subdirectory is dropped
AfterSubdir_dropped(has_a_file, ret) == has_a_file

\* if(populate_recursive(...)) has_a_file = true;
AfterSubdir(has_a_file, ret) == has_a_file \/ ret

RECURSIVE populate_recursive(_, _, _, _)
\* populate_recursive: the add_file calls it makes, in order, and the value
\* it returns (has_a_file)
populate_recursive(relativeTo, extensions, start_dir, disk) ==
    LET entries == Entries(start_dir, disk)
        RECURSIVE loop(_)
        loop(i) ==
            IF i = 0 THEN [calls |-> <<>>, has_a_file |-> FALSE]
            ELSE LET before == loop(i - 1)
                     path == entries[i]
                 IN  IF is_directory(path)
                     THEN LET r == populate_recursive(relativeTo, extensions, path, disk)
                          IN  [calls |-> before.calls \o r.calls,
                               has_a_file |-> AfterSubdir(before.has_a_file, r.ret)]
                     ELSE IF ~Qualifies(path, extensions)
                     THEN before
                     ELSE [calls |-> Append(before.calls,
                                       [fileid |-> pathToFileID(path, relativeTo),
                                        filetype |-> FileType_GAME]),
                           has_a_file |-> TRUE]
        end == loop(Len(entries))
    IN  [calls |-> IF end.has_a_file
                   THEN Append(end.calls,
                               [fileid |-> pathToFileID(start_dir, relativeTo),
                                filetype |-> FileType_FOLDER])
                   ELSE end.calls,
         ret |-> end.has_a_file]

RECURSIVE AddFiles(_, _, _, _)
\* the table after the first n add_file calls
AddFiles(calls, n, table, system) ==
    IF n = 0 THEN table
    ELSE add_file(calls[n].fileid, calls[n].filetype,
                  AddFiles(calls, n - 1, table, system), system)

\* addMissingFiles.  The system's name is spliced into the INSERT unquoted:
\* the statement is prepared only when the name reads as a literal, else
\* the prepare throws before the transaction begins.  failAt = 0: no step
\* fails.  failAt = k: the k-th add_file throws (a statement error, which
\* leaves the transaction open); the exception unwinds the scope and
\* ~SQLTransaction runs with mDB still set.
addMissingFiles(table, system, disk, failAt) ==
    LET relativeTo == getStartPath(system)
        r == populate_recursive(relativeTo, getExtensions(system), relativeTo, disk)
        done == IF failAt = 0 THEN Len(r.calls) ELSE failAt - 1
        written == AddFiles(r.calls, done, table, system)
    IN  IF ~SqlNumericLiteral(system)
        THEN [status |-> "DBException", table |-> table, calls |-> <<>>, done |-> 0,
              began |-> FALSE, commits |-> 0]
        ELSE IF failAt = 0
        THEN [status |-> "ok", table |-> written, calls |-> r.calls, done |-> done,
              began |-> TRUE, commits |-> TransactionScope(FALSE).commits]
        ELSE [status |-> "DBException",
              table |-> SQLTransaction_dtor(TRUE, table, written),
              calls |-> r.calls, done |-> done,
              began |-> TRUE, commits |-> TransactionScope(TRUE).commits]

\* ------------------------------------------------------- updateExists
\* every file identifier the model's table can hold, in the order the
\* SELECT of updateExists yields rows (an order the engine leaves open,
\* fixed here)
FileIDOrder ==
    << <<".">>, <<".", "d">>, <<".", "d", "e">>, <<".", "d", "e", "c.nes">>,
       <<".", "s", "n.txt">>, <<"roms", "s", "n.txt">> >>

\* SELECT fileid FROM files WHERE systemid = <name>
SelectFileIDs(table, system) ==
    SelectSeq(FileIDOrder, LAMBDA id : RowsOf(table, id, system) # {})

\* a faulty variant: the identifier is never joined to the start path
PathExists_unjoined(path, relativeTo, disk) == exists(path, disk)

\* the existence check of one row: an identifier that starts with '.' is
\* joined to the start path, any other is looked up as it is
PathExists(path, relativeTo, disk) ==
    IF path # <<>> /\ Head(path) = "."
    THEN exists(relativeTo \o path, disk)
    ELSE exists(path, disk)

\* a faulty variant: the UPDATE does not name the system
UpdateFileExists_anySystem(table, fileid, system, value) ==
    { IF column(r, 0) = fileid THEN [r EXCEPT ![4] = Val(IF value THEN 1 ELSE 0)]
      ELSE r : r \in table }

\* UPDATE files SET fileexists = ?1 WHERE fileid = ?2 AND systemid = <name>
UpdateFileExists(table, fileid, system, value) ==
    { IF SameKey(r, fileid, system) THEN [r EXCEPT ![4] = Val(IF value THEN 1 ELSE 0)]
      ELSE r : r \in table }

RECURSIVE UpdateRows(_, _, _, _, _)
\* the table after the first n passes of the loop of updateExists
UpdateRows(ids, n, table, system, disk) ==
    IF n = 0 THEN table
    ELSE UpdateFileExists(UpdateRows(ids, n - 1, table, system, disk), ids[n], system,
                          PathExists(ids[n], getStartPath(system), disk))

\* updateExists.  Both statements splice the system's name in unquoted, as
\* addMissingFiles does.  failAt is as in addMissingFiles, for the k-th
\* UPDATE.
updateExists(table, system, disk, failAt) ==
    LET ids == SelectFileIDs(table, system)
        done == IF failAt = 0 THEN Len(ids) ELSE failAt - 1
        written == UpdateRows(ids, done, table, system, disk)
    IN  IF ~SqlNumericLiteral(system)
        THEN [status |-> "DBException", table |-> table, calls |-> <<>>, done |-> 0,
              began |-> FALSE, commits |-> 0]
        ELSE IF failAt = 0
        THEN [status |-> "ok", table |-> written, calls |-> ids, done |-> done,
              began |-> TRUE, commits |-> TransactionScope(FALSE).commits]
        ELSE [status |-> "DBException",
              table |-> SQLTransaction_dtor(TRUE, table, written),
              calls |-> ids, done |-> done,
              began |-> TRUE, commits |-> TransactionScope(TRUE).commits]

\* ------------------------------------------------------------ documents
\* A gamelist file: state is "missing" (no file at xml_path), "malformed"
\* (load_file fails), "noroot" (no <gameList> child) or "ok"; nodes are the
\* children of <gameList> in document order.  A node has its tag, the text
\* of its path child as a path, and its other children in order, each a
\* pair of element name and text.
NoXml == [state |-> "none", nodes |-> <<>>]

\* fileNode.child(key): the text of the first child of that name, or NULL
child(fileNode, key) ==
    LET at == { i \in 1..Len(fileNode.children) : fileNode.children[i][1] = key } IN
    IF at = {} THEN NULL
    ELSE Val(fileNode.children[CHOOSE i \in at : \A j \in at : i <= j][2])

\* resolvePath(path, relativeTo, false): a path that starts with "." is
\* taken relative to relativeTo, any other is kept
resolvePath(path, relativeTo) ==
    IF path # <<>> /\ Head(path) = "." THEN relativeTo \o Tail(path) ELSE path

\* MetaDataMap(type): every declared key at its default value
MetaDataMap(type) ==
    LET mdd == getMDD(type) IN
    [type |-> type,
     values |-> [k \in MDKeys |->
                   mdd[CHOOSE i \in 1..Len(mdd) : mdd[i].key = k].defaultValue]]

\* --------------------------------------------------------- importXML
\* a faulty variant: every file is taken as a loaded document
LoadDocument_lenient(xml) == TRUE

\* the three checks importXML makes before its loop: the file exists, it
\* parses, it has a <gameList> root
LoadDocument(xml) == xml.state = "ok"

\* a faulty variant: nodes are taken in document order
ProcessingOrder_document(nodes) == nodes

\* the order the nested loops visit the nodes in: tagList[0] = "game" from
\* first to last sibling, then tagList[1] = "folder"
ProcessingOrder(nodes) ==
    SelectSeq(nodes, LAMBDA n : n.tag = "game")
    \o SelectSeq(nodes, LAMBDA n : n.tag = "folder")

\* typeList[i] of tagList[i]
TypeOfTag(tag) == IF tag = "game" THEN GAME_METADATA ELSE FOLDER_METADATA

\* a faulty variant: no node is skipped
Skips_never(path, disk) == FALSE

\* if(!boost::filesystem::exists(path)) { skipCount++; continue; }
Skips(path, disk) == ~exists(path, disk)

\* the map built for a node: the defaults, and the text of every child
\* named after a declared key (the catalog declares no MD_IMAGE_PATH field,
\* whose value would be resolved first)
NodeMetaData(type, fileNode) ==
    LET mdl == MetaDataMap(type) IN
    [mdl EXCEPT !.values =
        [k \in MDKeys |-> IF child(fileNode, k) # NULL THEN child(fileNode, k)[1]
                          ELSE mdl.values[k]]]

RECURSIVE ImportNodes(_, _, _, _, _, _)
\* the first n passes of the loops of importXML over the nodes in
\* processing order.  Every setFileData commits on its own.  ndebug: whether
\* the build compiles assert() out; if not, an empty name aborts.
ImportNodes(nodes, n, table, system, disk, ndebug) ==
    IF n = 0 THEN [status |-> "ok", table |-> table, skipCount |-> 0, puts |-> 0]
    ELSE LET before == ImportNodes(nodes, n - 1, table, system, disk, ndebug)
             fileNode == nodes[n]
             relativeTo == getStartPath(system)
             path == resolvePath(fileNode.path, relativeTo)
             mdl == NodeMetaData(TypeOfTag(fileNode.tag), fileNode)
             r == setFileData(before.table, pathToFileID(path, relativeTo), system, mdl)
         IN  IF before.status # "ok" THEN before
             ELSE IF Skips(path, disk)
             THEN [before EXCEPT !.skipCount = before.skipCount + 1]
             ELSE IF mdl.values["name"] = "" /\ ~ndebug
             THEN [before EXCEPT !.status = "abort"]
             ELSE [status |-> r.status, table |-> r.table,
                   skipCount |-> before.skipCount, puts |-> before.puts + 1]

\* importXML
importXML(table, system, disk, xml, ndebug) ==
    IF ~LoadDocument(xml)
    THEN [status |-> "ESException", table |-> table, skipCount |-> 0, puts |-> 0]
    ELSE LET nodes == ProcessingOrder(xml.nodes) IN
         ImportNodes(nodes, Len(nodes), table, system, disk, ndebug)

\* --------------------------------------------------------- exportXML
\* a faulty variant: only rows whose file exists are selected
SelectAll_existing(table, system) ==
    LET ids == SelectSeq(SelectFileIDs(table, system),
                         LAMBDA id : \E r \in RowsOf(table, id, system) :
                                         column(r, 3) = Val(1))
    IN  [i \in 1..Len(ids) |-> CHOOSE r \in RowsOf(table, ids[i], system) : TRUE]

\* SELECT * FROM files WHERE systemid = ?1: the rows, in the order step()
\* yields them
SelectAll(table, system) ==
    LET ids == SelectFileIDs(table, system) IN
    [i \in 1..Len(ids) |-> CHOOSE r \in RowsOf(table, ids[i], system) : TRUE]

\* if(path[0] == '.') path = relativeTo + path.substr(1);
ExpandPath(path, relativeTo) ==
    IF Head(path) = "." THEN relativeTo \o Tail(path) ELSE path

\* The node exportXML appends for a row: a child is appended for every
\* column from 4 on, then its text is set from sqlite3_column_text.  For a
\* NULL column that is text().set of a null pointer, which is undefined:
\* ub is the outcome the build produces, a crash at that child ("crash") or
\* a child left empty ("returns").
ExportNode(row, relativeTo, ub) ==
    LET nulls == { i \in 4..(ColumnCount - 1) : column(row, i) = NULL }
        crashed == ub = "crash" /\ nulls # {}
        last == IF crashed THEN CHOOSE i \in nulls : \A j \in nulls : i <= j
                ELSE ColumnCount - 1
    IN  [node |-> [tag |-> IF RowKind(row) = GAME_METADATA THEN "game" ELSE "folder",
                   path |-> ExpandPath(column(row, 0), relativeTo),
                   children |-> [j \in 1..(last - 3) |->
                                   << createTables[j + 4].name,
                                      IF column(row, j + 3) = NULL THEN ""
                                      ELSE column(row, j + 3)[1] >>]],
         crashed |-> crashed]

RECURSIVE ExportRows(_, _, _, _)
\* the document after the first n passes of the loop of exportXML
ExportRows(rows, n, relativeTo, ub) ==
    IF n = 0 THEN [status |-> "ok", nodes |-> <<>>]
    ELSE LET before == ExportRows(rows, n - 1, relativeTo, ub)
             e == ExportNode(rows[n], relativeTo, ub)
         IN  IF before.status # "ok" THEN before
             ELSE [status |-> IF e.crashed THEN "crash" ELSE "ok",
                   nodes |-> Append(before.nodes, e.node)]

\* exportXML: the document built, saved to xml_path when the loop ends
exportXML(table, system, ub) ==
    LET rows == SelectAll(table, system)
        r == ExportRows(rows, Len(rows), getStartPath(system), ub)
    IN  [status |-> r.status,
         xml |-> [state |-> IF r.status = "ok" THEN "ok" ELSE "unsaved",
                  nodes |-> r.nodes]]

\* ------------------------------------------------------------ operations
\* lastOp: the operation, its arguments, how it ended (status, and the map
\* getFileData returned), the add_file calls or UPDATEs it planned (calls)
\* and how many of them ran (done), the rows setFileData displaced
\* (replaced) and the identifiers whose INSERT was ignored (ignored);
\* whether its transaction began and the COMMITs that ran (began, commits);
\* the document it read or built, the nodes it skipped and the setFileData
\* calls it made (xml, skipCount, puts)
Op(op, system, fileID, metadata, status, map, calls, done, replaced, ignored) ==
    [op |-> op, system |-> system, fileID |-> fileID, metadata |-> metadata,
     status |-> status, map |-> map, calls |-> calls, done |-> done,
     replaced |-> replaced, ignored |-> ignored,
     began |-> FALSE, commits |-> 0, xml |-> NoXml, skipCount |-> 0, puts |-> 0]

Opened == Op("open", "", <<>>, NoMetaData, "ok", NoMetaData, <<>>, 0, {}, {})

\* a store just created, on any disk
InitStore ==
    /\ fs \in { s \in SUBSET Paths : WellFormedFs(s) }
    /\ files = {}
    /\ nput = 0
    /\ lastOp = Opened

\* a store opened after at most one setFileData, on any disk
InitScan ==
    /\ fs \in { s \in SUBSET Paths : WellFormedFs(s) }
    /\ files \in {{}} \cup
            { setFileData({}, fileID, systemID, metadata).table :
                fileID \in FileIDs, systemID \in SystemNames,
                metadata \in { m \in MetaDataMaps : m.values["name"] = "A" } }
    /\ nput = Cardinality(files)
    /\ lastOp = Opened

SetFileData ==
    \E fileID \in FileIDs, systemID \in SystemNames, metadata \in MetaDataMaps :
        LET r == setFileData(files, fileID, systemID, metadata) IN
        /\ nput < MaxPut
        /\ nput' = nput + 1
        /\ files' = r.table
        /\ lastOp' = Op("setFileData", systemID, fileID, metadata, r.status,
                        NoMetaData, <<>>, 0, RowsOf(files, fileID, systemID), {})
        /\ UNCHANGED fs

GetFileData ==
    \E fileID \in FileIDs, systemID \in SystemNames, ub \in {"throws", "returns"} :
        LET r == getFileData(files, fileID, systemID, ub) IN
        /\ lastOp' = Op("getFileData", systemID, fileID, NoMetaData, r.status,
                        r.map, <<>>, 0, {}, {})
        /\ UNCHANGED <<fs, files, nput>>

\* the add_file calls a scan may fail at
ScanFailPoints(system, disk) ==
    LET relativeTo == getStartPath(system) IN
    0..Len(populate_recursive(relativeTo, getExtensions(system), relativeTo, disk).calls)

AddMissingFiles ==
    \E system \in SystemNames :
    \E failAt \in ScanFailPoints(system, fs) :
        LET r == addMissingFiles(files, system, fs, failAt) IN
        /\ ~SqlNumericLiteral(system) => failAt = 0
        /\ files' = r.table
        /\ lastOp' = [Op("addMissingFiles", system, <<>>, NoMetaData, r.status,
                          NoMetaData, r.calls, r.done, {},
                          { r.calls[i].fileid : i \in { j \in 1..r.done :
                              RowsOf(files, r.calls[j].fileid, system) # {} } })
                       EXCEPT !.began = r.began, !.commits = r.commits]
        /\ UNCHANGED <<fs, nput>>

UpdateExists ==
    \E system \in SystemNames :
    \E failAt \in 0..Len(SelectFileIDs(files, system)) :
        LET r == updateExists(files, system, fs, failAt) IN
        /\ ~SqlNumericLiteral(system) => failAt = 0
        /\ files' = r.table
        /\ lastOp' = [Op("updateExists", system, <<>>, NoMetaData, r.status,
                          NoMetaData, r.calls, r.done, {}, {})
                       EXCEPT !.began = r.began, !.commits = r.commits]
        /\ UNCHANGED <<fs, nput>>

\* the disk changes under the program: an entry appears in an existing
\* directory, or an entry with nothing beneath it goes away
DiskChange ==
    \E p \in Paths \ {<<"roms">>} :
        /\ \/ p \notin fs /\ Parent(p) \in fs /\ fs' = fs \cup {p}
           \/ p \in fs /\ (\A q \in fs : Parent(q) # p) /\ fs' = fs \ {p}
        /\ lastOp' = Op("disk", "", <<>>, NoMetaData, "ok", NoMetaData, <<>>, 0, {}, {})
        /\ UNCHANGED <<files, nput>>

\* the gamelist files an import is given: the three unusable ones, and
\* every document of at most MaxNodes nodes, which are game and folder nodes
\* with a name and one game node without
NodePaths == { <<".", "d", "e", "c.nes">>, <<".", "s", "n.txt">> }

Nodes ==
    [tag : {"game", "folder"}, path : NodePaths,
     children : { << <<"name", "A">> >>, << <<"name", "B">> >> }]
    \cup { [tag |-> "game", path |-> <<".", "d", "e", "c.nes">>, children |-> <<>>] }

XmlFiles ==
    { [state |-> st, nodes |-> <<>>] : st \in {"missing", "malformed", "noroot"} }
    \cup { [state |-> "ok", nodes |-> d] :
             d \in UNION { [1..n -> Nodes] : n \in 0..MaxNodes } }

ImportXML ==
    \E system \in SystemNames, xml \in XmlFiles, ndebug \in BOOLEAN :
        LET r == importXML(files, system, fs, xml, ndebug) IN
        /\ nput + Len(xml.nodes) <= MaxPut
        \* the two builds differ only on a node without a name
        /\ ~ndebug => \E i \in 1..Len(xml.nodes) : child(xml.nodes[i], "name") = NULL
        /\ nput' = nput + Len(xml.nodes)
        /\ files' = r.table
        /\ lastOp' = [Op("importXML", system, <<>>, NoMetaData, r.status,
                          NoMetaData, <<>>, 0, {}, {})
                       EXCEPT !.xml = xml, !.skipCount = r.skipCount, !.puts = r.puts]
        /\ UNCHANGED fs

ExportXML ==
    \E system \in SystemNames, ub \in {"crash", "returns"} :
        LET r == exportXML(files, system, ub) IN
        /\ lastOp' = [Op("exportXML", system, <<>>, NoMetaData, r.status,
                          NoMetaData, <<>>, 0, {}, {})
                       EXCEPT !.xml = r.xml]
        /\ UNCHANGED <<fs, files, nput>>

\* a store after at most MaxPut setFileData calls, a scan of system "7" on
\* an earlier disk and possibly a refresh on the present one
InitExport ==
    /\ fs \in { s \in SUBSET Paths : WellFormedFs(s) }
    /\ \E before \in { s \in SUBSET Paths : WellFormedFs(s) }, refreshed \in BOOLEAN,
          keys \in { k \in SUBSET (FileIDs \X SystemNames) : Cardinality(k) <= MaxPut } :
       \E kinds \in [keys -> {GAME_METADATA, FOLDER_METADATA}] :
          LET put == { BoundRow(k[1], k[2], [MetaDataMap(kinds[k]) EXCEPT
                                               !.values["name"] = "A"]) : k \in keys }
              scanned == addMissingFiles(put, "7", before, 0).table
          IN  /\ files = IF refreshed THEN updateExists(scanned, "7", fs, 0).table
                         ELSE scanned
              /\ nput = Cardinality(keys)
    /\ lastOp = Opened

NextImport == ImportXML

\* imports into a store, on any disk
SpecImport == InitStore /\ [][NextImport]_vars

NextExport == ExportXML

\* exports of a store that was written, scanned and refreshed
SpecExport == InitExport /\ [][NextExport]_vars

NextStore ==
    \/ SetFileData
    \/ GetFileData

\* the record store on its own: writes and reads of single records
SpecStore == InitStore /\ [][NextStore]_vars

NextScan ==
    \/ AddMissingFiles
    \/ UpdateExists
    \/ DiskChange

\* the scanner and the existence refresh over a changing disk
SpecScan == InitScan /\ [][NextScan]_vars

\* ================================================================ claims
\* the columns that hold the catalog's fields: 4 .. ColumnCount - 1
FieldColumns == 4..(ColumnCount - 1)

\* the key of the catalog field stored in column i
FieldKey(i) == createTables[i + 1].name

\* C1: a setFileData of R followed by a getFileData of the same key
\* succeeds, and returns R's kind and, for every catalog field, R's string.
C1_RoundTrip ==
    [][ ( /\ lastOp.op = "setFileData"
          /\ lastOp.status = "ok"
          /\ lastOp'.op = "getFileData"
          /\ lastOp'.fileID = lastOp.fileID
          /\ lastOp'.system = lastOp.system )
        => ( /\ lastOp'.status = "ok"
             /\ lastOp'.map.type = lastOp.metadata.type
             /\ \A k \in MDKeys :
                    /\ k \in DOMAIN lastOp'.map.values
                    /\ lastOp'.map.values[k] = lastOp.metadata.values[k] ) ]_vars

\* C2: getFileData returns a record exactly when a row with the key exists,
\* and fails when there is none.
C2_NotFoundIsAnError ==
    lastOp.op = "getFileData" =>
        (lastOp.status = "ok" <=> RowsOf(files, lastOp.fileID, lastOp.system) # {})

\* the row setFileData leaves for its key: one row, of the map's kind, and in
\* every field column the text Stored(column, value of the map)
PutLeaves(Stored(_, _)) ==
    (lastOp.op = "setFileData" /\ lastOp.status = "ok") =>
        /\ Cardinality(RowsOf(files, lastOp.fileID, lastOp.system)) = 1
        /\ \A r \in RowsOf(files, lastOp.fileID, lastOp.system) :
              /\ RowKind(r) = lastOp.metadata.type
              /\ \A i \in FieldColumns :
                    column(r, i) = Val(Stored(i, lastOp.metadata.values[FieldKey(i)]))

OneRowPerKey ==
    \A r1 \in files, r2 \in files :
        SameKey(r1, column(r2, 0), column(r2, 1)) => r1 = r2

AsGiven(i, text) == text

AsTheColumnStores(i, text) == StoredText(createTables[i + 1].affinity, text)

ContainsMatch(dir, disk, extensions) ==
    \E p \in disk \cap RegularFiles :
        /\ IsPrefix(dir, p)
        /\ extension(p) \in extensions

\* the identifiers of the first n add_file calls of the last scan
CallIDs(n) == { lastOp.calls[i].fileid : i \in 1..n }

ScanDone == lastOp.op = "addMissingFiles" /\ lastOp.status = "ok"

ScanRoot == getStartPath(lastOp.system)

ScanID(p) == pathToFileID(p, ScanRoot)

\* C3: a scan or a refresh that fails leaves the table as it was before the
\* operation started.
C3_FailureLeavesTableUntouched ==
    [][ ( /\ lastOp'.op \in {"addMissingFiles", "updateExists"}
          /\ lastOp'.status # "ok" )
        => files' = files ]_vars

\* C5: a scan changes no row that is there (it only adds rows, under keys
\* that had none), and a scan that follows a completed scan of the same
\* system over the same disk changes nothing.
C5_InsertIgnoreNeverClobbers ==
    [][ lastOp'.op = "addMissingFiles"
        => ( /\ files \subseteq files'
             /\ \A r \in files' \ files : RowsOf(files, column(r, 0), column(r, 1)) = {}
             /\ ( ( /\ lastOp.op = "addMissingFiles"
                    /\ lastOp.status = "ok"
                    /\ lastOp'.system = lastOp.system )
                  => files' = files ) ) ]_vars

\* C5's case: a repeated scan, every INSERT of which met a row, one of them
\* a row written by setFileData with another filetype than the scanner binds
C5_Witness ==
    /\ ScanDone
    /\ Len(lastOp.calls) > 1
    /\ lastOp.ignored = CallIDs(Len(lastOp.calls))
    /\ \E id \in lastOp.ignored :
          \E r \in RowsOf(files, id, lastOp.system) :
              /\ column(r, 2) # FileType_GAME
              /\ column(r, 4) # NULL

\* C6: after a scan into an empty table, every file that passes the
\* extension list has a row of kind game, every subdirectory that contains
\* such a file has a row of kind folder, and no directory has a row of kind
\* game.
C6_ScanKinds ==
    (ScanDone /\ lastOp.ignored = {} /\ Cardinality(files) = Len(lastOp.calls)) =>
        /\ \A p \in fs \cap RegularFiles :
              extension(p) \in getExtensions(lastOp.system) =>
                  \E r \in RowsOf(files, ScanID(p), lastOp.system) :
                      column(r, 2) = FileType_GAME
        /\ \A d \in (fs \cap Directories) \ {ScanRoot} :
              ContainsMatch(d, fs, getExtensions(lastOp.system)) =>
                  \E r \in RowsOf(files, ScanID(d), lastOp.system) :
                      column(r, 2) = FileType_FOLDER
        /\ \A d \in fs \cap Directories :
              \A r \in RowsOf(files, ScanID(d), lastOp.system) :
                  column(r, 2) # FileType_GAME

\* C7: a scan creates no row for the start directory itself.
C7_NoRecordForRoot ==
    lastOp.op = "addMissingFiles" =>
        \A i \in 1..lastOp.done :
            lastOp.calls[i].fileid = ScanID(ScanRoot) =>
                lastOp.calls[i].fileid \in lastOp.ignored

\* C8: populate_recursive returns true for a directory exactly when a file
\* beneath it, at any depth, passes the extension list; a completed scan
\* inserts a directory strictly beneath the root exactly in that case, and
\* inserts nothing from a subtree without such a file.
C8_ContainmentPropagation ==
    /\ \A system \in SystemNames : \A d \in fs \cap Directories :
          populate_recursive(getStartPath(system), getExtensions(system), d, fs).ret
            = ContainsMatch(d, fs, getExtensions(system))
    /\ ScanDone =>
          \A d \in (fs \cap Directories) \ {ScanRoot} :
              LET contains == ContainsMatch(d, fs, getExtensions(lastOp.system)) IN
              /\ ScanID(d) \in CallIDs(lastOp.done) <=> contains
              /\ contains => RowsOf(files, ScanID(d), lastOp.system) # {}
              /\ ~contains =>
                    \A p \in fs : IsPrefix(d, p) => ScanID(p) \notin CallIDs(lastOp.done)

\* C8's case: a completed scan that inserted a directory whose only match
\* lies deeper than its own entries, next to a directory that holds a file
\* but no match and was not inserted
C8_Witness ==
    /\ ScanDone
    /\ \E d1 \in (fs \cap Directories) \ {ScanRoot} :
          /\ ScanID(d1) \in CallIDs(lastOp.done)
          /\ \A p \in fs \cap RegularFiles :
                (IsPrefix(d1, p) /\ extension(p) \in getExtensions(lastOp.system))
                    => Len(p) > Len(d1) + 1
    /\ \E d2 \in (fs \cap Directories) \ {ScanRoot} :
          /\ ~ContainsMatch(d2, fs, getExtensions(lastOp.system))
          /\ \E p \in fs \cap RegularFiles : IsPrefix(d2, p)
          /\ ScanID(d2) \notin CallIDs(lastOp.done)

\* C9: a scan of a tree in which no file passes the extension list leaves
\* the table unchanged.
C9_NothingToScan ==
    [][ ( /\ lastOp'.op = "addMissingFiles"
          /\ ~ContainsMatch(getStartPath(lastOp'.system), fs,
                            getExtensions(lastOp'.system)) )
        => files' = files ]_vars

\* C9's case: a completed scan of a tree that holds a file, none that
\* passes the list, with rows in the table
C9_Witness ==
    /\ ScanDone
    /\ ~ContainsMatch(ScanRoot, fs, getExtensions(lastOp.system))
    /\ fs \cap RegularFiles # {}
    /\ files # {}

\* the path an identifier stands for: joined to the start path when it
\* starts with the relative marker, else the identifier itself
Resolved(fileid, relativeTo) ==
    IF Head(fileid) = "." THEN relativeTo \o Tail(fileid) ELSE fileid

C11_CreatedAsExisting ==
    /\ lastOp.op = "addMissingFiles" =>
          \A i \in 1..lastOp.done :
              lastOp.calls[i].fileid \notin lastOp.ignored =>
                  \A r \in RowsOf(files, lastOp.calls[i].fileid, lastOp.system) :
                      column(r, 3) = Val(1)
    /\ (lastOp.op = "setFileData" /\ lastOp.status = "ok") =>
          \A r \in RowsOf(files, lastOp.fileID, lastOp.system) :
              column(r, 3) = Val(1)

\* a row without its fileexists column
WithoutFlag(r) == [r EXCEPT ![4] = NULL]

C17_GetReadsKindAndFields ==
    (lastOp.op = "getFileData" /\ lastOp.status = "ok") =>
        /\ DOMAIN lastOp.map.values = MDKeys
        /\ \E r \in RowsOf(files, lastOp.fileID, lastOp.system) :
              lastOp.map.type = RowKind(r)

\* C18: a transaction that began has ended when its scope is left; a
\* scope left normally has run COMMIT once, a scope left by an exception has
\* run none and its writes are gone; commit() on a committed transaction
\* throws.
C18_ScopedRelease ==
    /\ SQLTransaction_commit(SQLTransaction_commit(SQLTransaction)).threw
    /\ [][ (lastOp'.op \in {"addMissingFiles", "updateExists"} /\ lastOp'.began)
           => IF lastOp'.status = "ok"
              THEN lastOp'.commits = 1
              ELSE lastOp'.commits = 0 /\ files' = files ]_vars

\* the nodes of a document whose path is not on the disk, by position
MissingNodes(xml, system, disk) ==
    { i \in 1..Len(xml.nodes) :
        ~exists(resolvePath(xml.nodes[i].path, getStartPath(system)), disk) }

\* the file identifier a node's path stands for
NodeID(fileNode, system) ==
    pathToFileID(resolvePath(fileNode.path, getStartPath(system)), getStartPath(system))

\* every node of the document whose file is there has a name
FoundAreNamed(xml, system, disk) ==
    \A i \in 1..Len(xml.nodes) :
        i \notin MissingNodes(xml, system, disk) => child(xml.nodes[i], "name") # NULL

\* C14: an import of a loaded document whose found nodes are named
\* succeeds; it counts one skip for every node whose path is missing and
\* writes nothing for it, and makes one setFileData call for every other
\* node, so skips and writes add up to the number of nodes.
C14_SkipAccounting ==
    [][ ( /\ lastOp'.op = "importXML"
          /\ lastOp'.xml.state = "ok"
          /\ FoundAreNamed(lastOp'.xml, lastOp'.system, fs) )
        => LET nodes == lastOp'.xml.nodes
               missing == MissingNodes(lastOp'.xml, lastOp'.system, fs)
               found == (1..Len(nodes)) \ missing
               written == { <<NodeID(nodes[i], lastOp'.system), lastOp'.system>> : i \in found }
           IN  /\ lastOp'.status = "ok"
               /\ lastOp'.skipCount = Cardinality(missing)
               /\ lastOp'.puts = Cardinality(found)
               /\ lastOp'.skipCount + lastOp'.puts = Len(nodes)
               /\ \A r \in files \cup files' :
                     <<column(r, 0), column(r, 1)>> \notin written
                     => (r \in files /\ r \in files')
               /\ \A k \in written : Cardinality(RowsOf(files', k[1], k[2])) = 1 ]_vars

\* C14's case: a document with a node whose file is there and one whose
\* file is missing was imported: one skip, one write
C14_Witness ==
    /\ lastOp.op = "importXML"
    /\ lastOp.status = "ok"
    /\ Len(lastOp.xml.nodes) = 2
    /\ lastOp.skipCount = 1
    /\ lastOp.puts = 1
    /\ Cardinality(files) = 1

\* C15: an import of a file that is missing, does not parse or has no
\* <gameList> root throws, and the table is as it was before the call.
C15_FailedImportWritesNothing ==
    [][ ( /\ lastOp'.op = "importXML"
          /\ lastOp'.xml.state \in {"missing", "malformed", "noroot"} )
        => ( /\ lastOp'.status = "ESException"
             /\ lastOp'.puts = 0
             /\ files' = files ) ]_vars

\* C15's case: an import has thrown over a table that holds rows
C15_Witness ==
    /\ lastOp.op = "importXML"
    /\ lastOp.status = "ESException"
    /\ lastOp.xml.state \in {"missing", "malformed", "noroot"}
    /\ files # {}

\* node j of the document is visited after node i
VisitedAfter(nodes, i, j) ==
    \/ nodes[i].tag = "game" /\ nodes[j].tag = "folder"
    \/ nodes[i].tag = nodes[j].tag /\ i < j

\* C19: game nodes are visited before folder nodes, each group in document
\* order: the row an import leaves for a file identifier is the one of the
\* last found node in that order.
C19_GamesBeforeFolders ==
    [][ ( /\ lastOp'.op = "importXML"
          /\ lastOp'.xml.state = "ok"
          /\ lastOp'.status = "ok" )
        => LET nodes == lastOp'.xml.nodes
               system == lastOp'.system
               found == (1..Len(nodes)) \ MissingNodes(lastOp'.xml, system, fs)
           IN  \A i \in found :
                  (\A j \in found : NodeID(nodes[j], system) = NodeID(nodes[i], system)
                                        => ~VisitedAfter(nodes, i, j))
                  => RowsOf(files', NodeID(nodes[i], system), system)
                       = { BoundRow(NodeID(nodes[i], system), system,
                                    NodeMetaData(TypeOfTag(nodes[i].tag), nodes[i])) } ]_vars

\* C19's case: a folder node stands before a game node of the same file in
\* the document, and the row left is the folder's
C19_Witness ==
    /\ lastOp.op = "importXML"
    /\ lastOp.status = "ok"
    /\ lastOp.puts = 2
    /\ lastOp.xml.nodes[1].tag = "folder"
    /\ lastOp.xml.nodes[2].tag = "game"
    /\ lastOp.xml.nodes[1].path = lastOp.xml.nodes[2].path
    /\ child(lastOp.xml.nodes[1], "name") # child(lastOp.xml.nodes[2], "name")
    /\ \A r \in files : RowKind(r) = FOLDER_METADATA
    /\ \A r \in files : column(r, 4) = child(lastOp.xml.nodes[1], "name")

\* the rows of a system
SystemRows(table, system) == { r \in table : column(r, 1) = system }

\* the node that stands for a row
NodeOfRow(fileNode, r, system) ==
    /\ fileNode.path = ExpandPath(column(r, 0), getStartPath(system))
    /\ fileNode.tag = (IF RowKind(r) = GAME_METADATA THEN "game" ELSE "folder")

\* C16: the document exportXML saves has one node for every row of the
\* system and no other, whatever the row's fileexists, tagged by the row's
\* filetype.
C16_ExportCompleteness ==
    (lastOp.op = "exportXML" /\ lastOp.status = "ok") =>
        LET rows == SystemRows(files, lastOp.system)
            nodes == lastOp.xml.nodes
        IN  /\ lastOp.xml.state = "ok"
            /\ Len(nodes) = Cardinality(rows)
            /\ \A r \in rows : \E i \in 1..Len(nodes) : NodeOfRow(nodes[i], r, lastOp.system)
            /\ \A i \in 1..Len(nodes) : \E r \in rows : NodeOfRow(nodes[i], r, lastOp.system)

\* C16's case: the exported system has rows with fileexists 0 and 1 and of
\* both kinds, and another system has rows too
C16_Witness ==
    /\ lastOp.op = "exportXML"
    /\ lastOp.status = "ok"
    /\ \E r \in SystemRows(files, lastOp.system) : column(r, 3) = Val(0)
    /\ \E r \in SystemRows(files, lastOp.system) : column(r, 3) = Val(1)
    /\ \E i, j \in 1..Len(lastOp.xml.nodes) :
          lastOp.xml.nodes[i].tag = "game" /\ lastOp.xml.nodes[j].tag = "folder"
    /\ \E r \in files : column(r, 1) # lastOp.system

\* C20: a node has a child for a field exactly when the row's column is not
\* NULL, and none named after a fixed column.
C20_NoChildForNull ==
    lastOp.op = "exportXML" =>
        LET rows == SelectAll(files, lastOp.system)
            nodes == lastOp.xml.nodes
        IN  \A i \in 1..Len(nodes) :
               /\ \A j \in FieldColumns :
                     column(rows[i], j) = NULL
                     => \A c \in 1..Len(nodes[i].children) :
                           nodes[i].children[c][1] # FieldKey(j)
               /\ lastOp.status = "ok" =>
                     \A j \in FieldColumns :
                         column(rows[i], j) # NULL
                         => \E c \in 1..Len(nodes[i].children) :
                               nodes[i].children[c] = <<FieldKey(j), column(rows[i], j)[1]>>
               /\ \A c \in 1..Len(nodes[i].children) :
                     nodes[i].children[c][1] \notin
                         {"fileid", "systemid", "filetype", "fileexists"}

\* key, kind and fields of a row
Record(r) ==
    << column(r, 0), column(r, 1), RowKind(r), [j \in FieldColumns |-> column(r, j)] >>

\* C13: the document exported for a system whose rows have their files on
\* disk, imported into an empty store, gives the rows of that system again:
\* the same keys, kinds and field values.
C13_ExportImportSymmetry ==
    ( /\ lastOp.op = "exportXML"
      /\ lastOp.status = "ok"
      /\ \A r \in SystemRows(files, lastOp.system) :
            LET path == Resolved(column(r, 0), getStartPath(lastOp.system)) IN
            /\ exists(path, fs)
            /\ pathToFileID(path, getStartPath(lastOp.system)) = column(r, 0) )
    => \A ndebug \in BOOLEAN :
          LET r == importXML({}, lastOp.system, fs, lastOp.xml, ndebug) IN
          /\ r.status = "ok"
          /\ { Record(x) : x \in r.table }
               = { Record(x) : x \in SystemRows(files, lastOp.system) }

====
